---- MODULE Spec2Model ----
(***************************************************************************)
(* A model of the medai-assistant dashboard: the two subprocess relay      *)
(* endpoints (inference POST, training GET and POST), the role-gated view  *)
(* shell (login view, role cookie, dashboard layout, sidebar), the upload  *)
(* view (UploadImage form, MedicalAnalysis component) and the two views    *)
(* over mock data (TrainingMetrics, PatientDetail).                        *)
(*                                                                         *)
(* Text is a sequence of one-character strings, so that template literals  *)
(* (`${patientId}_${Date.now()}_${image.name}`), the decimal rendering of  *)
(* a timestamp and JSON.parse are computed, not assumed.                   *)
(***************************************************************************)
EXTENDS Integers, Sequences, FiniteSets, TLC

VARIABLES
    req,        \* relay: per request slot, the handler's locals and position
    proc,       \* relay: per request slot, what the spawned process has done
    resp,       \* relay: per request slot, the responses sent (a sequence)
    files,      \* relay: the files on disk, a set of [path, data]
    dirs,       \* relay: the directories that exist under process.cwd()
    now,        \* relay: Date.now()
    host,       \* relay: the process hosting the endpoints, "up" or "crashed"
    location,   \* browser: the route currently shown
    pendingNav, \* browser: a router.push target not yet committed
    cookie,     \* browser: the userRole cookie
    login,      \* login view: email, password, selectedRole, error
    shell,      \* dashboard layout: mounted, userRole state, effect position
    console,    \* browser: lines written by console.log
    uploadImage,     \* upload view: the state of the UploadImage form
    medicalAnalysis, \* upload view: the state of the MedicalAnalysis component
    fetches,    \* upload view: per request slot, the state of the fetch that sent it
    trainingMetrics, \* training-metrics view: mounted, effect position, metrics, intervalId
    timers,          \* browser: the active interval timers, the next id, callbacks run
    patientDetail    \* patient-detail view: route id, report, imageZoomed, imagePosition

relayVars == <<req, proc, resp, files, dirs, now, host>>
uiVars == <<location, pendingNav, cookie, login, shell, console>>
uploadVars == <<uploadImage, medicalAnalysis, fetches>>
shellVars == <<location, pendingNav, cookie, login, shell>>
viewVars == <<trainingMetrics, timers, patientDetail>>
vars == <<req, proc, resp, files, dirs, now, host,
          location, pendingNav, cookie, login, shell, console,
          uploadImage, medicalAnalysis, fetches,
          trainingMetrics, timers, patientDetail>>

----------------------------------------------------------------------------
(* Bounds of the model. *)

\* request slots the relay model declares
MaxReq == 2
\* data events a process emits on standard output
MaxChunks == 3
\* data events a process emits on standard error
MaxErrChunks == 1
\* largest exit code a process closes with
MaxExit == 1
\* Date.now() when the model starts, and how many times it advances
ClockStart == 9
MaxTick == 1
\* lines kept of the browser console
MaxLog == 2
\* images the UploadImage form holds
MaxImages == 1
\* setInterval calls the browser serves, and interval callbacks it runs
MaxIntervals == 2
MaxFired == 2

Req == 1..MaxReq

----------------------------------------------------------------------------
(* Text. *)

Digits == <<"0", "1", "2", "3", "4", "5", "6", "7", "8", "9">>

RECURSIVE Dec(_)
\* String(n) for a non-negative integer, as a template literal renders it
Dec(n) == IF n < 10 THEN <<Digits[n + 1]>> ELSE Dec(n \div 10) \o <<Digits[(n % 10) + 1]>>

\* an optional form field: formData.get returns the value or null
Some(v) == [some |-> TRUE, v |-> v]
None == [some |-> FALSE, v |-> <<>>]

\* `${x}` for a value that may be null
Str(x) == IF x.some THEN x.v ELSE <<"n", "u", "l", "l">>

\* JavaScript truthiness of a string-or-null: null and "" are falsy
Truthy(x) == x.some /\ x.v # <<>>

----------------------------------------------------------------------------
(* JSON.parse and JSON.stringify on the fragment of JSON the model's       *)
(* processes can print: numbers made of the digit 1, arrays of at most one *)
(* element, and blanks.  JSONParse returns whether the text is a JSON      *)
(* document and, if so, its value in JSON.stringify's rendering (blanks    *)
(* dropped).                                                               *)

RECURSIVE SkipWs(_, _)
SkipWs(s, i) == IF i <= Len(s) /\ s[i] = " " THEN SkipWs(s, i + 1) ELSE i

RECURSIVE NumEnd(_, _)
NumEnd(s, i) == IF i <= Len(s) /\ s[i] = "1" THEN NumEnd(s, i + 1) ELSE i

RECURSIVE ParseValue(_, _)
\* a JSON value starting at s[i]: [ok, next, out]
ParseValue(s, i) ==
    IF i > Len(s) THEN [ok |-> FALSE, next |-> i, out |-> <<>>]
    ELSE IF s[i] = "1"
    THEN LET j == NumEnd(s, i) IN [ok |-> TRUE, next |-> j, out |-> SubSeq(s, i, j - 1)]
    ELSE IF s[i] = "["
    THEN LET j == SkipWs(s, i + 1) IN
         IF j <= Len(s) /\ s[j] = "]"
         THEN [ok |-> TRUE, next |-> j + 1, out |-> <<"[", "]">>]
         ELSE LET e == ParseValue(s, j)
                  k == SkipWs(s, e.next)
              IN IF e.ok /\ k <= Len(s) /\ s[k] = "]"
                 THEN [ok |-> TRUE, next |-> k + 1, out |-> <<"[">> \o e.out \o <<"]">>]
                 ELSE [ok |-> FALSE, next |-> k, out |-> <<>>]
    ELSE [ok |-> FALSE, next |-> i, out |-> <<>>]

\* JSON.parse(s): ok is FALSE where JSON.parse throws a SyntaxError
JSONParse(s) ==
    LET v == ParseValue(s, SkipWs(s, 1))
        end == SkipWs(s, v.next)
    IN IF v.ok /\ end = Len(s) + 1
       THEN [ok |-> TRUE, val |-> v.out]
       ELSE [ok |-> FALSE, val |-> <<>>]

----------------------------------------------------------------------------
(* The relay endpoints: requests, the files they write, the processes they *)
(* spawn.                                                                  *)

NoFile == [some |-> FALSE, v |-> [name |-> <<>>, bytes |-> ""]]
SomeFile(n, b) == [some |-> TRUE, v |-> [name |-> n, bytes |-> b]]

\* texts the model's clients send
PatientIds == {<<"4", "2">>}
PatientNames == {<<"A", "n", "n">>}
FileNames == {<<"s", "c", "a", "n", ".", "d", "c", "m">>}
ImageTypes == {<<>>, <<"c", "t">>}
Actions == {<<"s", "t", "a", "r", "t", "_", "r", "o", "u", "n", "d">>}
ClientIds == {<<"c", "1">>}
Opt(S) == {None} \cup {Some(v) : v \in S}
OptFile(S) == {NoFile} \cup {SomeFile(n, "A") : n \in S}

\* a request body that is not multipart: req.formData() rejects
NotMultipart == [multipart |-> FALSE, image |-> NoFile, type |-> None, patientName |-> None,
                 patientId |-> None, action |-> None, clientId |-> None, modelUpdate |-> NoFile]

\* the bodies a client can POST to the inference endpoint
InferBodies ==
    {NotMultipart} \cup
    {[multipart |-> TRUE, image |-> i, type |-> t, patientName |-> n, patientId |-> p,
      action |-> None, clientId |-> None, modelUpdate |-> NoFile] :
        i \in OptFile(FileNames), t \in Opt(ImageTypes),
        n \in Opt(PatientNames), p \in Opt(PatientIds)}

\* the bodies a client can POST to the training endpoint
TrainBodies ==
    {NotMultipart} \cup
    {[multipart |-> TRUE, image |-> NoFile, type |-> None, patientName |-> None,
      patientId |-> None, action |-> a, clientId |-> c, modelUpdate |-> u] :
        a \in Opt(Actions), c \in Opt(ClientIds), u \in OptFile({<<"u", ".", "p", "t">>})}

\* what the external process can write in one data event
StdoutChunks == {"[", "]", "1", " "}
StderrChunks == {"E"}
ExitCodes == 0..MaxExit

\* path.join(process.cwd(), dir, name)
PathJoin(dir, name) == [dir |-> dir, name |-> name]
NoPath == PathJoin("", <<>>)

IdleReq == [kind |-> "none", pc |-> "idle", body |-> NotMultipart,
            fileName |-> <<>>, path |-> NoPath, args |-> <<>>,
            result |-> <<>>, error |-> <<>>, spawns |-> 0]
NoProc == [state |-> "none", out |-> <<>>, err |-> <<>>, code |-> 0, args |-> <<>>]

\* request slots are interchangeable: the next request takes the lowest free one
Arrives(r) == \A q \in Req : q < r => req[q].pc # "idle"

\* new NextResponse(JSON.stringify(body), { status })
NextResponse(body, status) == [status |-> status, body |-> body]

\* the handler of request r returns a response and ends
Return(r, rec, response) ==
    /\ req' = [req EXCEPT ![r] = [rec EXCEPT !.pc = "done"]]
    /\ resp' = [resp EXCEPT ![r] = Append(@, response)]

InferFailure == NextResponse([success |-> FALSE, error |-> "Inference failed"], 500)
MissingFields == NextResponse([success |-> FALSE, error |-> "Missing required fields"], 400)
StatusFailure == NextResponse([success |-> FALSE, error |-> "Failed to get training status"], 500)
TrainFailure == NextResponse([success |-> FALSE, error |-> "Training operation failed"], 500)

\* the fixed failure response of the handler of a kind
FailureOf(kind) ==
    CASE kind = "infer" -> InferFailure
      [] kind = "trainGet" -> StatusFailure
      [] OTHER -> TrainFailure

\* spawn('python', args): a child process starts, or fails to
Spawn(r, rec, args) ==
    /\ req' = [req EXCEPT ![r] = [rec EXCEPT !.pc = "close", !.args = args,
                                             !.spawns = @ + 1, !.result = <<>>, !.error = <<>>]]
    /\ proc' = [proc EXCEPT ![r] = [NoProc EXCEPT !.state = "running", !.args = args]]

(* ---- inference endpoint: POST ---- *)

\* a request arrives; the handler runs to `await req.formData()`
InferPOST_begin(r, body) ==
    /\ host = "up" /\ req[r].pc = "idle"
    /\ req' = [req EXCEPT ![r] = [IdleReq EXCEPT !.kind = "infer", !.pc = "formData", !.body = body]]
    /\ UNCHANGED <<proc, resp, files, dirs, now, host>>

\* a shape check that forgets the type
InferMissing_imageOnly(body) == ~body.image.some

\* the condition of the shape check, `!image || !imageType`
InferMissing(body) == ~body.image.some \/ ~Truthy(body.type)

\* formData resolved (or rejected): the shape check, then `await mkdir(uploadsDir)`
InferPOST_formData(r) ==
    /\ host = "up" /\ req[r].kind = "infer" /\ req[r].pc = "formData"
    /\ IF ~req[r].body.multipart THEN Return(r, req[r], InferFailure)
       ELSE IF InferMissing(req[r].body) THEN Return(r, req[r], MissingFields)
       ELSE /\ req' = [req EXCEPT ![r].pc = "mkdir"]
            /\ UNCHANGED resp
    /\ UNCHANGED <<proc, files, dirs, now, host>>

\* mkdir settled: on success `await image.arrayBuffer()`
InferPOST_mkdir(r, ok) ==
    /\ host = "up" /\ req[r].kind = "infer" /\ req[r].pc = "mkdir"
    /\ IF ok
       THEN /\ dirs' = dirs \cup {"uploads"}
            /\ req' = [req EXCEPT ![r].pc = "arrayBuffer"]
            /\ UNCHANGED resp
       ELSE /\ Return(r, req[r], InferFailure)
            /\ UNCHANGED dirs
    /\ UNCHANGED <<proc, files, now, host>>

\* a file name with the upload's name first
InferFileName_nameFirst(patientId, t, name) == name \o <<"_">> \o Dec(t) \o <<"_">> \o Str(patientId)

\* `${patientId}_${Date.now()}_${image.name}`
InferFileName(patientId, t, name) == Str(patientId) \o <<"_">> \o Dec(t) \o <<"_">> \o name

\* the buffer is read: fileName and imagePath are computed, `await writeFile(...)`
InferPOST_arrayBuffer(r) ==
    /\ host = "up" /\ req[r].kind = "infer" /\ req[r].pc = "arrayBuffer"
    /\ LET fileName == InferFileName(req[r].body.patientId, now, req[r].body.image.v.name)
       IN req' = [req EXCEPT ![r].pc = "writeFile", ![r].fileName = fileName,
                             ![r].path = PathJoin("uploads", fileName)]
    /\ UNCHANGED <<proc, resp, files, dirs, now, host>>

\* the files after writeFile(path, data): the file at path is replaced
WriteFile(path, data) == {f \in files : f.path # path} \cup {[path |-> path, data |-> data]}

\* the arguments of the inference script
InferArgs(rec) ==
    <<"inference.py", "--image_path", rec.path, "--image_type", Str(rec.body.type),
      "--patient_id", Str(rec.body.patientId), "--patient_name", Str(rec.body.patientName)>>

\* a handler that spawns the script without having written the upload
InferPOST_writeFile_spawnOnly(r, ok) ==
    /\ host = "up" /\ req[r].kind = "infer" /\ req[r].pc = "writeFile"
    /\ IF ok
       THEN /\ Spawn(r, req[r], InferArgs(req[r]))
            /\ UNCHANGED resp
       ELSE /\ Return(r, req[r], InferFailure)
            /\ UNCHANGED proc
    /\ UNCHANGED <<files, dirs, now, host>>

\* writeFile settled: on success the script is spawned and its close awaited
InferPOST_writeFile(r, ok) ==
    /\ host = "up" /\ req[r].kind = "infer" /\ req[r].pc = "writeFile"
    /\ IF ok
       THEN /\ files' = WriteFile(req[r].path, req[r].body.image.v.bytes)
            /\ Spawn(r, req[r], InferArgs(req[r]))
            /\ UNCHANGED resp
       ELSE /\ Return(r, req[r], InferFailure)
            /\ UNCHANGED <<files, proc>>
    /\ UNCHANGED <<dirs, now, host>>

\* an inference handler that does not look at standard error
InferOutcome_ignoresStderr(rec, code) ==
    IF code # 0 THEN InferFailure
    ELSE LET analysis == JSONParse(rec.result) IN
         IF ~analysis.ok THEN InferFailure
         ELSE NextResponse([success |-> TRUE, result |-> analysis.val,
                            imagePath |-> rec.fileName], 200)

\* an inference handler that returns the diagnostic output with its failure
InferOutcome_leaksDetail(rec, code) ==
    IF code # 0 \/ rec.error # <<>> \/ ~JSONParse(rec.result).ok
    THEN NextResponse([success |-> FALSE, error |-> "Inference failed", detail |-> rec.error], 500)
    ELSE NextResponse([success |-> TRUE, result |-> JSONParse(rec.result).val,
                       imagePath |-> rec.fileName], 200)

\* the response of the inference handler once its process has closed with `code`
InferOutcome(rec, code) ==
    IF code # 0 THEN InferFailure
    ELSE IF rec.error # <<>> THEN InferFailure
    ELSE LET analysis == JSONParse(rec.result) IN
         IF ~analysis.ok THEN InferFailure
         ELSE NextResponse([success |-> TRUE, result |-> analysis.val,
                            imagePath |-> rec.fileName], 200)

(* ---- training endpoint: GET ---- *)

StatusArgs == <<"cli.py", "--mode", <<"s", "t", "a", "t", "u", "s">>>>

\* a GET arrives: the handler spawns the CLI at once and awaits its close
TrainGET_begin(r) ==
    /\ host = "up" /\ req[r].pc = "idle"
    /\ Spawn(r, [IdleReq EXCEPT !.kind = "trainGet"], StatusArgs)
    /\ UNCHANGED <<resp, files, dirs, now, host>>

\* a status handler that resolves whatever the exit code
StatusOutcome_ignoresExit(rec, code) ==
    LET status == JSONParse(rec.result) IN
    IF ~status.ok THEN StatusFailure
    ELSE NextResponse([success |-> TRUE, status |-> status.val], 200)

\* the response of the status handler once its process has closed with `code`
StatusOutcome(rec, code) ==
    IF code # 0 THEN StatusFailure
    ELSE LET status == JSONParse(rec.result) IN
         IF ~status.ok THEN StatusFailure
         ELSE NextResponse([success |-> TRUE, status |-> status.val], 200)

(* ---- training endpoint: POST ---- *)

\* a POST arrives; the handler runs to `await req.formData()`
TrainPOST_begin(r, body) ==
    /\ host = "up" /\ req[r].pc = "idle"
    /\ req' = [req EXCEPT ![r] = [IdleReq EXCEPT !.kind = "trainPost", !.pc = "formData", !.body = body]]
    /\ UNCHANGED <<proc, resp, files, dirs, now, host>>

\* formData resolved (or rejected): no field is checked, `await createTempDir(tempDir)`
TrainPOST_formData(r) ==
    /\ host = "up" /\ req[r].kind = "trainPost" /\ req[r].pc = "formData"
    /\ IF ~req[r].body.multipart THEN Return(r, req[r], TrainFailure)
       ELSE /\ req' = [req EXCEPT ![r].pc = "mkdir"]
            /\ UNCHANGED resp
    /\ UNCHANGED <<proc, files, dirs, now, host>>

\* arguments that tell the CLI whether an earlier request left the temp
\* directory behind
TrainArgs_resumes(body) ==
    <<"cli.py", "--mode", Str(body.action), "--client_id", Str(body.clientId)>>
        \o (IF "temp" \in dirs THEN <<"--resume">> ELSE <<>>)

\* the arguments before any update path is pushed
TrainArgs(body) == <<"cli.py", "--mode", Str(body.action), "--client_id", Str(body.clientId)>>

\* `update_${clientId}_${Date.now()}.pt`
UpdateFileName(clientId, t) ==
    <<"u", "p", "d", "a", "t", "e", "_">> \o Str(clientId) \o <<"_">> \o Dec(t) \o <<".", "p", "t">>

\* createTempDir settled: with a model update, its path is computed and the
\* buffer awaited; without one the CLI is spawned at once
TrainPOST_createTempDir(r, ok) ==
    /\ host = "up" /\ req[r].kind = "trainPost" /\ req[r].pc = "mkdir"
    /\ IF ~ok
       THEN /\ Return(r, req[r], TrainFailure)
            /\ UNCHANGED <<dirs, proc>>
       ELSE /\ dirs' = dirs \cup {"temp"}
            /\ UNCHANGED resp
            /\ IF req[r].body.modelUpdate.some
               THEN LET fileName == UpdateFileName(req[r].body.clientId, now)
                    IN /\ req' = [req EXCEPT ![r].pc = "arrayBuffer", ![r].fileName = fileName,
                                             ![r].path = PathJoin("temp", fileName),
                                             ![r].args = TrainArgs(req[r].body)]
                       /\ UNCHANGED proc
               ELSE Spawn(r, req[r], TrainArgs(req[r].body))
    /\ UNCHANGED <<files, now, host>>

\* the buffer is read: `await writeFile(updatePath, buffer)`
TrainPOST_arrayBuffer(r) ==
    /\ host = "up" /\ req[r].kind = "trainPost" /\ req[r].pc = "arrayBuffer"
    /\ req' = [req EXCEPT ![r].pc = "writeFile"]
    /\ UNCHANGED <<proc, resp, files, dirs, now, host>>

\* a handler that passes the update path on without writing the payload
TrainPOST_writeFile_spawnOnly(r, ok) ==
    /\ host = "up" /\ req[r].kind = "trainPost" /\ req[r].pc = "writeFile"
    /\ IF ok
       THEN /\ Spawn(r, req[r], req[r].args \o <<"--update_path", req[r].path>>)
            /\ UNCHANGED resp
       ELSE /\ Return(r, req[r], TrainFailure)
            /\ UNCHANGED proc
    /\ UNCHANGED <<files, dirs, now, host>>

\* writeFile settled: on success the path is pushed and the CLI spawned
TrainPOST_writeFile(r, ok) ==
    /\ host = "up" /\ req[r].kind = "trainPost" /\ req[r].pc = "writeFile"
    /\ IF ok
       THEN /\ files' = WriteFile(req[r].path, req[r].body.modelUpdate.v.bytes)
            /\ Spawn(r, req[r], req[r].args \o <<"--update_path", req[r].path>>)
            /\ UNCHANGED resp
       ELSE /\ Return(r, req[r], TrainFailure)
            /\ UNCHANGED <<files, proc>>
    /\ UNCHANGED <<dirs, now, host>>

\* a training handler that relays the text of stdout without parsing it
TrainOutcome_unparsed(rec, code) ==
    IF code # 0 THEN TrainFailure
    ELSE IF rec.error # <<>> THEN TrainFailure
    ELSE IF ~JSONParse(rec.result).ok THEN TrainFailure
    ELSE NextResponse([success |-> TRUE, result |-> rec.result], 200)

\* the response of the training POST handler once its process has closed with `code`
TrainOutcome(rec, code) ==
    IF code # 0 THEN TrainFailure
    ELSE IF rec.error # <<>> THEN TrainFailure
    ELSE LET result == JSONParse(rec.result) IN
         IF ~result.ok THEN TrainFailure
         ELSE NextResponse([success |-> TRUE, result |-> result.val], 200)

(* ---- the spawned process and the listeners on it ---- *)

\* whether the handler of this kind listens on the process's standard error
ListensStderr(kind) == kind \in {"infer", "trainPost"}

\* stdout 'data': `result += data.toString()`
ProcStdout(r, c) ==
    /\ host = "up" /\ proc[r].state = "running" /\ req[r].pc = "close"
    /\ Len(proc[r].out) < MaxChunks
    /\ proc' = [proc EXCEPT ![r].out = Append(@, c)]
    /\ req' = [req EXCEPT ![r].result = Append(@, c)]
    /\ UNCHANGED <<resp, files, dirs, now, host>>

\* stderr 'data': `error += data.toString()` where a listener is attached
ProcStderr(r, c) ==
    /\ host = "up" /\ proc[r].state = "running" /\ req[r].pc = "close"
    /\ Len(proc[r].err) < MaxErrChunks
    /\ proc' = [proc EXCEPT ![r].err = Append(@, c)]
    /\ req' = [req EXCEPT ![r].error = IF ListensStderr(req[r].kind) THEN Append(@, c) ELSE @]
    /\ UNCHANGED <<resp, files, dirs, now, host>>

\* the process could not be started: the child emits 'error', on which no
\* handler listens, and never emits 'close'.  The exception is uncaught: it
\* ends the hosting process unless the host installs its own handler.
ProcSpawnError(r, fatal) ==
    /\ host = "up" /\ proc[r].state = "running" /\ req[r].pc = "close"
    /\ proc[r].out = <<>> /\ proc[r].err = <<>>
    /\ proc' = [proc EXCEPT ![r].state = "failed"]
    /\ host' = IF fatal THEN "crashed" ELSE "up"
    /\ UNCHANGED <<req, resp, files, dirs, now>>

\* the response a handler sends once its process has closed with `code`
Outcome(rec, code) ==
    CASE rec.kind = "infer" -> InferOutcome(rec, code)
      [] rec.kind = "trainGet" -> StatusOutcome(rec, code)
      [] OTHER -> TrainOutcome(rec, code)

\* a close listener that spawns the script again after a first failure
ProcClose_retry(r, code) ==
    /\ host = "up" /\ proc[r].state = "running" /\ req[r].pc = "close"
    /\ IF code # 0 /\ req[r].spawns < 2
       THEN /\ Spawn(r, req[r], req[r].args)
            /\ UNCHANGED resp
       ELSE /\ proc' = [proc EXCEPT ![r].state = "closed", ![r].code = code]
            /\ Return(r, req[r], Outcome(req[r], code))
    /\ UNCHANGED <<files, dirs, now, host>>

\* 'close': the awaited promise settles and the handler runs to its return
ProcClose(r, code) ==
    /\ host = "up" /\ proc[r].state = "running" /\ req[r].pc = "close"
    /\ proc' = [proc EXCEPT ![r].state = "closed", ![r].code = code]
    /\ Return(r, req[r], Outcome(req[r], code))
    /\ UNCHANGED <<files, dirs, now, host>>

\* a clock that times out the requests waiting for their process
Tick_timeout ==
    /\ now < ClockStart + MaxTick
    /\ now' = now + 1
    /\ req' = [r \in Req |-> IF req[r].pc = "close" THEN [req[r] EXCEPT !.pc = "done"] ELSE req[r]]
    /\ resp' = [r \in Req |-> IF req[r].pc = "close"
                               THEN Append(resp[r], FailureOf(req[r].kind)) ELSE resp[r]]
    /\ UNCHANGED <<proc, files, dirs, host>>

\* time passes
Tick ==
    /\ now < ClockStart + MaxTick
    /\ now' = now + 1
    /\ UNCHANGED <<req, proc, resp, files, dirs, host>>

InitRelay ==
    /\ req = [r \in Req |-> IdleReq]
    /\ proc = [r \in Req |-> NoProc]
    /\ resp = [r \in Req |-> <<>>]
    /\ files = {}
    /\ dirs = {}
    /\ now = ClockStart
    /\ host = "up"

----------------------------------------------------------------------------
(* The role-gated view shell: login view, role cookie, dashboard layout,   *)
(* sidebar.  "" stands for null / undefined (no role, no cookie).          *)

UserRole == {"doctor", "radiologist"}

menuItems == <<
    [label |-> "Home", href |-> "/dashboard", roles |-> {"doctor", "radiologist"}],
    [label |-> "Recent Uploads", href |-> "/dashboard/recent-uploads", roles |-> {"doctor", "radiologist"}],
    [label |-> "Upload Images", href |-> "/dashboard/upload", roles |-> {"radiologist"}],
    [label |-> "Book Appointment", href |-> "https://www.practo.com/consult", roles |-> {"doctor", "radiologist"}],
    [label |-> "Analytics", href |-> "/dashboard/analytics", roles |-> {"doctor", "radiologist"}],
    [label |-> "Settings", href |-> "/dashboard/settings", roles |-> {"doctor", "radiologist"}] >>

\* item.href.startsWith("http"): the link opens in a new tab
External(href) == href = "https://www.practo.com/consult"

\* the routes under the dashboard layout
DashboardRoutes == {menuItems[i].href : i \in {j \in DOMAIN menuItems : ~External(menuItems[j].href)}}

\* what the user can type into the login form
Emails == {"", "doctor@hospital.com"}
Passwords == {"", "secret"}

InitialLogin == [email |-> "", password |-> "", selectedRole |-> "", error |-> ""]
NoShell == [mounted |-> FALSE, userRole |-> "", pc |-> "none", role |-> ""]
\* the layout as first rendered: useState(null), its effect not yet run
FreshShell == [mounted |-> TRUE, userRole |-> "", pc |-> "effect", role |-> ""]

\* a sidebar that shows every item to every role
Sidebar_unfiltered(role) == menuItems

\* menuItems.filter((item) => item.roles.includes(role))
Sidebar(role) == SelectSeq(menuItems, LAMBDA item : role \in item.roles)

\* what DashboardLayout renders: the placeholder while userRole is null,
\* else the sidebar for userRole beside the child view
DashboardLayout ==
    IF shell.userRole = ""
    THEN [view |-> "Loading...", sidebar |-> <<>>, children |-> FALSE]
    ELSE [view |-> "dashboard", sidebar |-> Sidebar(shell.userRole), children |-> TRUE]

\* the route `url` is shown: the views mounted there start from their initial state
Enter(url, reload) ==
    /\ location' = url
    /\ pendingNav' = ""
    /\ login' = InitialLogin
    /\ shell' = IF url \notin DashboardRoutes THEN NoShell
                ELSE IF shell.mounted /\ ~reload THEN shell
                ELSE FreshShell

\* the user opens a URL of the site in the address bar
LoadPage(url) ==
    /\ Enter(url, TRUE)
    /\ UNCHANGED <<cookie, console>>

\* a router.push (or a Link click) takes effect
CommitNavigation ==
    /\ pendingNav # ""
    /\ Enter(pendingNav, FALSE)
    /\ UNCHANGED <<cookie, console>>

\* the role buttons of the login view
setSelectedRole(role) ==
    /\ location = "/"
    /\ login' = [login EXCEPT !.selectedRole = role]
    /\ UNCHANGED <<location, pendingNav, cookie, shell, console>>

setEmail(e) ==
    /\ location = "/"
    /\ login' = [login EXCEPT !.email = e]
    /\ UNCHANGED <<location, pendingNav, cookie, shell, console>>

setPassword(p) ==
    /\ location = "/"
    /\ login' = [login EXCEPT !.password = p]
    /\ UNCHANGED <<location, pendingNav, cookie, shell, console>>

\* a submit that does not look at the email and the password
handleSubmit_noCredentials ==
    /\ location = "/"
    /\ IF login.selectedRole = ""
       THEN /\ login' = [login EXCEPT !.error = "Please select a role"]
            /\ UNCHANGED <<cookie, pendingNav>>
       ELSE /\ cookie' = login.selectedRole
            /\ pendingNav' = "/dashboard"
            /\ UNCHANGED login
    /\ UNCHANGED <<location, shell, console>>

\* the login form is submitted
handleSubmit ==
    /\ location = "/"
    /\ IF login.selectedRole = ""
       THEN /\ login' = [login EXCEPT !.error = "Please select a role"]
            /\ UNCHANGED <<cookie, pendingNav>>
       ELSE IF login.email # "" /\ login.password # ""
       THEN /\ cookie' = login.selectedRole
            /\ pendingNav' = "/dashboard"
            /\ UNCHANGED login
       ELSE UNCHANGED <<login, cookie, pendingNav>>
    /\ UNCHANGED <<location, shell, console>>

\* an effect that does not redirect when the cookie is absent
DashboardLayout_effect_noRedirect ==
    /\ shell.mounted /\ shell.pc = "effect"
    /\ shell' = [shell EXCEPT !.pc = "ready", !.role = cookie, !.userRole = cookie]
    /\ UNCHANGED <<location, pendingNav, cookie, login, console>>

\* the effect of DashboardLayout, run once after the layout mounts
DashboardLayout_effect ==
    /\ shell.mounted /\ shell.pc = "effect"
    /\ LET role == cookie IN
       IF role = ""
       THEN /\ pendingNav' = "/"
            /\ shell' = [shell EXCEPT !.pc = "ready", !.role = role]
       ELSE /\ shell' = [shell EXCEPT !.pc = "ready", !.role = role, !.userRole = role]
            /\ UNCHANGED pendingNav
    /\ UNCHANGED <<location, cookie, login, console>>

\* a click on item i of the rendered sidebar
Sidebar_link(i) ==
    /\ i \in DOMAIN DashboardLayout.sidebar
    /\ LET item == DashboardLayout.sidebar[i] IN
       pendingNav' = IF External(item.href) THEN pendingNav ELSE item.href
    /\ UNCHANGED <<location, cookie, login, shell, console>>

\* console.log(line), the console keeping its last MaxLog lines
ConsoleLog(line) ==
    LET all == Append(console, line) IN
    IF Len(all) > MaxLog THEN SubSeq(all, Len(all) - MaxLog + 1, Len(all)) ELSE all

\* a Logout button that deletes the role cookie
Sidebar_logout_clearsCookie ==
    /\ DashboardLayout.view = "dashboard"
    /\ console' = ConsoleLog("Logout clicked")
    /\ cookie' = ""
    /\ UNCHANGED <<location, pendingNav, login, shell>>

\* a click on the sidebar's Logout button
Sidebar_logout ==
    /\ DashboardLayout.view = "dashboard"
    /\ console' = ConsoleLog("Logout clicked")
    /\ UNCHANGED <<location, pendingNav, cookie, login, shell>>

\* the cookie's maxAge has elapsed
CookieExpire ==
    /\ cookie # ""
    /\ cookie' = ""
    /\ UNCHANGED <<location, pendingNav, login, shell, console>>

InitUI ==
    /\ location = "/"
    /\ pendingNav = ""
    /\ cookie = ""
    /\ login = InitialLogin
    /\ shell = NoShell
    /\ console = <<>>

----------------------------------------------------------------------------
(* The upload view: the MedicalAnalysis component, which sends an image to *)
(* the inference endpoint, and the UploadImage form.                       *)

\* the error state of MedicalAnalysis: null or a message
NoError == [some |-> FALSE, v |-> ""]
SomeError(message) == [some |-> TRUE, v |-> message]

\* the values of the image-type select of MedicalAnalysis
AnalysisTypes == {<<"c", "t">>, <<"m", "r", "i">>}

\* useState(null), useState('ct'), useState(null), useState(false), useState(null)
InitialAnalysis ==
    [mounted |-> TRUE, selectedFile |-> NoFile, imageType |-> <<"c", "t">>, analysis |-> None,
     loading |-> FALSE, error |-> NoError]

\* the file input changes: the error is cleared, and the first file, if any,
\* becomes the selected file
handleFileChange(file) ==
    /\ medicalAnalysis.mounted
    /\ medicalAnalysis' = [medicalAnalysis EXCEPT !.error = NoError,
                               !.selectedFile = IF file.some THEN file ELSE @]
    /\ UNCHANGED <<uploadImage, fetches, console>>

\* onValueChange of the select
MedicalAnalysis_setImageType(value) ==
    /\ medicalAnalysis.mounted
    /\ medicalAnalysis' = [medicalAnalysis EXCEPT !.imageType = value]
    /\ UNCHANGED <<uploadImage, fetches, console>>

\* the FormData that handleAnalyze builds
AnalyzeFormData(selectedFile, imageType) ==
    [multipart |-> TRUE, image |-> selectedFile, type |-> Some(imageType),
     patientName |-> None, patientId |-> None,
     action |-> None, clientId |-> None, modelUpdate |-> NoFile]

\* an Analyze button that stays enabled while a request is in flight
handleAnalyze_whileLoading(r) ==
    /\ medicalAnalysis.mounted
    /\ medicalAnalysis.selectedFile.some
    /\ fetches[r] = "none" /\ Arrives(r)
    /\ medicalAnalysis' = [medicalAnalysis EXCEPT !.loading = TRUE]
    /\ fetches' = [fetches EXCEPT ![r] = "pending"]
    /\ IF host = "up"
       THEN InferPOST_begin(r, AnalyzeFormData(medicalAnalysis.selectedFile,
                                               medicalAnalysis.imageType))
       ELSE UNCHANGED relayVars
    /\ UNCHANGED <<uploadImage, console>>

\* a click on the enabled Analyze button: loading is set and the form data
\* is POSTed to /api/infer as request r; a host that is down takes no request
handleAnalyze(r) ==
    /\ medicalAnalysis.mounted
    /\ medicalAnalysis.selectedFile.some /\ ~medicalAnalysis.loading
    /\ fetches[r] = "none" /\ Arrives(r)
    /\ medicalAnalysis' = [medicalAnalysis EXCEPT !.loading = TRUE]
    /\ fetches' = [fetches EXCEPT ![r] = "pending"]
    /\ IF host = "up"
       THEN InferPOST_begin(r, AnalyzeFormData(medicalAnalysis.selectedFile,
                                               medicalAnalysis.imageType))
       ELSE UNCHANGED relayVars
    /\ UNCHANGED <<uploadImage, console>>

\* a failure branch that also discards the stored analysis
handleAnalyze_response_clearsResult(r) ==
    /\ fetches[r] = "pending" /\ resp[r] # <<>>
    /\ LET data == resp[r][1].body IN
       medicalAnalysis' =
           IF data.success
           THEN [medicalAnalysis EXCEPT !.analysis = Some(data.result), !.loading = FALSE]
           ELSE [medicalAnalysis EXCEPT !.error = SomeError(data.error), !.analysis = None,
                                        !.loading = FALSE]
    /\ fetches' = [fetches EXCEPT ![r] = "settled"]
    /\ UNCHANGED <<uploadImage, console>>

\* the fetch of request r resolved: `data = await response.json()`, then
\* setAnalysis or setError, and in the finally block setLoading(false)
handleAnalyze_response(r) ==
    /\ fetches[r] = "pending" /\ resp[r] # <<>>
    /\ LET data == resp[r][1].body IN
       medicalAnalysis' =
           IF data.success
           THEN [medicalAnalysis EXCEPT !.analysis = Some(data.result), !.loading = FALSE]
           ELSE [medicalAnalysis EXCEPT
                    !.error = SomeError(IF "error" \in DOMAIN data /\ data.error # ""
                                        THEN data.error ELSE "Analysis failed"),
                    !.loading = FALSE]
    /\ fetches' = [fetches EXCEPT ![r] = "settled"]
    /\ UNCHANGED <<uploadImage, console>>

\* a catch block without the finally block: loading stays set
handleAnalyze_rejected_staysLoading(r) ==
    /\ fetches[r] = "pending" /\ resp[r] = <<>> /\ host = "crashed"
    /\ medicalAnalysis' = [medicalAnalysis EXCEPT !.error = SomeError("Failed to fetch")]
    /\ fetches' = [fetches EXCEPT ![r] = "settled"]
    /\ UNCHANGED <<uploadImage, console>>

\* the fetch of request r rejected (the host is gone): the catch block sets
\* the error to the exception's message, the finally block clears loading
handleAnalyze_rejected(r) ==
    /\ fetches[r] = "pending" /\ resp[r] = <<>> /\ host = "crashed"
    /\ medicalAnalysis' = [medicalAnalysis EXCEPT !.error = SomeError("Failed to fetch"),
                                                  !.loading = FALSE]
    /\ fetches' = [fetches EXCEPT ![r] = "settled"]
    /\ UNCHANGED <<uploadImage, console>>

\* the fetch of request r resolved with a body that is not JSON (the error
\* page of a gateway in front of a host that is gone): response.json() throws,
\* the catch block sets the error to the exception's message
handleAnalyze_undecodable(r) ==
    /\ fetches[r] = "pending" /\ resp[r] = <<>> /\ host = "crashed"
    /\ medicalAnalysis' = [medicalAnalysis EXCEPT
                              !.error = SomeError("Unexpected token < in JSON at position 0"),
                              !.loading = FALSE]
    /\ fetches' = [fetches EXCEPT ![r] = "settled"]
    /\ UNCHANGED <<uploadImage, console>>

\* the values of the image-type select of UploadImage
UploadTypes == {<<"x", "-", "r", "a", "y">>, <<"m", "r", "i">>, <<"c", "t">>,
                <<"u", "l", "t", "r", "a", "s", "o", "u", "n", "d">>}

\* useState([]), useState(''), useState(''), useState('')
InitialUpload ==
    [mounted |-> TRUE, images |-> <<>>, patientName |-> <<>>, patientId |-> <<>>,
     imageType |-> <<>>]

setPatientName(value) ==
    /\ uploadImage.mounted
    /\ uploadImage' = [uploadImage EXCEPT !.patientName = value]
    /\ UNCHANGED <<medicalAnalysis, fetches, console>>

setPatientId(value) ==
    /\ uploadImage.mounted
    /\ uploadImage' = [uploadImage EXCEPT !.patientId = value]
    /\ UNCHANGED <<medicalAnalysis, fetches, console>>

UploadImage_setImageType(value) ==
    /\ uploadImage.mounted
    /\ uploadImage' = [uploadImage EXCEPT !.imageType = value]
    /\ UNCHANGED <<medicalAnalysis, fetches, console>>

\* files are chosen in the file input: they are appended to the images
handleImageUpload(newFiles) ==
    /\ uploadImage.mounted
    /\ Len(uploadImage.images) + Len(newFiles) <= MaxImages
    /\ uploadImage' = [uploadImage EXCEPT !.images = @ \o newFiles]
    /\ UNCHANGED <<medicalAnalysis, fetches, console>>

\* the remove button of image `index` (counted from 1)
removeImage(index) ==
    /\ uploadImage.mounted /\ index \in DOMAIN uploadImage.images
    /\ uploadImage' = [uploadImage EXCEPT
                          !.images = [k \in 1..(Len(@) - 1) |-> IF k < index THEN @[k] ELSE @[k + 1]]]
    /\ UNCHANGED <<medicalAnalysis, fetches, console>>

\* the form is submitted (the browser requires a patient name and id): the
\* values are logged to the console, nothing is sent, and the form is reset
UploadImage_handleSubmit ==
    /\ uploadImage.mounted
    /\ uploadImage.patientName # <<>> /\ uploadImage.patientId # <<>>
    /\ console' = ConsoleLog("Submitting:")
    /\ uploadImage' = InitialUpload
    /\ UNCHANGED <<medicalAnalysis, fetches>>

\* the upload page is opened: it renders one of the two components, which
\* starts from its initial state
UploadPage(component) ==
    /\ ~uploadImage.mounted /\ ~medicalAnalysis.mounted
    /\ uploadImage' = IF component = "UploadImage" THEN InitialUpload ELSE uploadImage
    /\ medicalAnalysis' = IF component = "MedicalAnalysis" THEN InitialAnalysis
                           ELSE medicalAnalysis
    /\ UNCHANGED <<fetches, console>>

InitUpload ==
    /\ uploadImage = [InitialUpload EXCEPT !.mounted = FALSE]
    /\ medicalAnalysis = [InitialAnalysis EXCEPT !.mounted = FALSE]
    /\ fetches = [r \in Req |-> "none"]

----------------------------------------------------------------------------
(* The training-metrics view (TrainingMetrics of Sidebar.tsx). *)

\* one entry of the metrics state; loss is kept in hundredths (0.15 is 15)
Metric(accuracy, loss) == [accuracy |-> accuracy, loss |-> loss]

\* the value the metrics state starts with
InitialMetrics == [ct |-> Metric(0, 0), mri |-> Metric(0, 0), xray |-> Metric(0, 0)]

\* the simulated API answer fetchMetrics stores
FetchedMetrics == [ct |-> Metric(85, 15), mri |-> Metric(90, 10), xray |-> Metric(88, 12)]

\* the component after its first render; intervalId 0 is "no timer yet"
InitialTraining ==
    [mounted |-> TRUE, pc |-> "effect", metrics |-> InitialMetrics, intervalId |-> 0]

\* fetchMetrics(): setMetrics changes nothing on a component React has removed
fetchMetrics ==
    IF trainingMetrics.mounted
    THEN [trainingMetrics EXCEPT !.metrics = FetchedMetrics]
    ELSE trainingMetrics

\* the view is rendered for the first time
TrainingMetrics_mount ==
    /\ ~trainingMetrics.mounted
    /\ timers.next <= MaxIntervals
    /\ trainingMetrics' = InitialTraining
    /\ UNCHANGED <<timers, console>>

\* the mount effect: fetchMetrics(), then setInterval(fetchMetrics, 5000)
TrainingMetrics_effect ==
    /\ trainingMetrics.mounted
    /\ trainingMetrics.pc = "effect"
    /\ trainingMetrics' = [fetchMetrics EXCEPT !.pc = "ready", !.intervalId = timers.next]
    /\ timers' = [timers EXCEPT !.active = @ \cup {timers.next}, !.next = @ + 1]
    /\ UNCHANGED console

\* the browser runs the callback of the active interval timer id
Interval_tick(id) ==
    /\ id \in timers.active
    /\ timers.fired < MaxFired
    /\ timers' = [timers EXCEPT !.fired = @ + 1]
    /\ trainingMetrics' = fetchMetrics
    /\ UNCHANGED console

\* a teardown that forgets the effect's cleanup
TrainingMetrics_unmount_keepsTimer ==
    /\ trainingMetrics.mounted
    /\ trainingMetrics.pc = "ready"
    /\ trainingMetrics' = [trainingMetrics EXCEPT !.mounted = FALSE]
    /\ UNCHANGED <<timers, console>>

\* the view is torn down: React runs the effect's cleanup,
\* clearInterval(intervalId)
TrainingMetrics_unmount ==
    /\ trainingMetrics.mounted
    /\ trainingMetrics.pc = "ready"
    /\ timers' = [timers EXCEPT !.active = @ \ {trainingMetrics.intervalId}]
    /\ trainingMetrics' = [trainingMetrics EXCEPT !.mounted = FALSE]
    /\ UNCHANGED console

\* a click on the Refresh Metrics button
TrainingMetrics_refresh ==
    /\ trainingMetrics.mounted
    /\ console' = ConsoleLog("Refresh metrics")
    /\ UNCHANGED <<trainingMetrics, timers>>

----------------------------------------------------------------------------
(* The patient-detail view (PatientDetail). *)

\* the in-memory report array (the long texts diagnosis, recommendations and
\* scanImage are left out of the entries)
patientReports ==
    << [id |-> "1", patientName |-> "John Doe", patientAge |-> 45,
        patientGender |-> "Male", uploadTime |-> "2023-05-10 14:30",
        imageType |-> "MRI", analysis |-> "Completed"],
       [id |-> "2", patientName |-> "Jane Smith", patientAge |-> 32,
        patientGender |-> "Female", uploadTime |-> "2023-05-10 15:45",
        imageType |-> "CT Scan (Lungs)", analysis |-> "In Progress"],
       [id |-> "3", patientName |-> "Bob Johnson", patientAge |-> 58,
        patientGender |-> "Male", uploadTime |-> "2023-05-10 16:20",
        imageType |-> "MRI", analysis |-> "Completed"],
       [id |-> "4", patientName |-> "Alice Brown", patientAge |-> 27,
        patientGender |-> "Female", uploadTime |-> "2023-05-10 17:10",
        imageType |-> "CT Scan (Lungs)", analysis |-> "In Progress"],
       [id |-> "5", patientName |-> "Charlie Davis", patientAge |-> 50,
        patientGender |-> "Male", uploadTime |-> "2023-05-10 18:00",
        imageType |-> "MRI", analysis |-> "Completed"] >>

\* the ids a route can carry: those of the array and some of no entry
RouteIds == {patientReports[i].id : i \in DOMAIN patientReports} \cup {"6", "01", "john"}

\* the report state when it is null, and when it holds an entry
NoReport ==
    [some |-> FALSE,
     v |-> [id |-> "", patientName |-> "", patientAge |-> 0, patientGender |-> "",
            uploadTime |-> "", imageType |-> "", analysis |-> ""]]
SomeReport(entry) == [some |-> TRUE, v |-> entry]

\* an effect that always shows the first entry of the array
PatientDetail_find_first(id) == SomeReport(patientReports[1])

\* patientReports.find((r) => r.id === params.id) || null
PatientDetail_find(id) ==
    LET hits == {i \in DOMAIN patientReports : patientReports[i].id = id} IN
    IF hits = {} THEN NoReport
    ELSE SomeReport(patientReports[CHOOSE i \in hits : \A j \in hits : i <= j])

\* the component after its first render under the route /…/id
InitialDetail(id) ==
    [mounted |-> TRUE, id |-> id, pc |-> "effect", report |-> NoReport,
     imageZoomed |-> FALSE, imagePosition |-> 0]

\* what the component renders
PatientDetail ==
    IF ~patientDetail.mounted THEN [view |-> "none"]
    ELSE IF ~patientDetail.report.some THEN [view |-> "loading"]
    ELSE [view |-> "report",
          report |-> patientDetail.report.v,
          scale |-> IF patientDetail.imageZoomed THEN 2 ELSE 1,
          x |-> IF patientDetail.imageZoomed THEN patientDetail.imagePosition ELSE 0,
          panButtons |-> patientDetail.imageZoomed,
          leftDisabled |-> patientDetail.imagePosition >= 0,
          rightDisabled |-> patientDetail.imagePosition <= -200]

\* the route of report id is opened
PatientDetail_mount(id) ==
    /\ ~patientDetail.mounted
    /\ patientDetail' = InitialDetail(id)

\* the effect on params.id
PatientDetail_effect ==
    /\ patientDetail.mounted
    /\ patientDetail.pc = "effect"
    /\ patientDetail' = [patientDetail EXCEPT !.pc = "ready",
                                              !.report = PatientDetail_find(patientDetail.id)]

\* the user leaves the route
PatientDetail_unmount ==
    /\ patientDetail.mounted
    /\ patientDetail.pc = "ready"
    /\ patientDetail' = [patientDetail EXCEPT !.mounted = FALSE]

\* a click on the zoom button
PatientDetail_zoom ==
    /\ PatientDetail.view = "report"
    /\ patientDetail' = [patientDetail EXCEPT !.imageZoomed = ~@, !.imagePosition = 0]

\* an updater that pans the other way
PanPosition_swapped(prev, direction) ==
    LET newPosition == IF direction = "left" THEN prev - 50 ELSE prev + 50 IN
    LET upper == IF newPosition < 0 THEN newPosition ELSE 0 IN
    IF upper > -200 THEN upper ELSE -200

\* the updater handlePan gives setImagePosition:
\* Math.max(Math.min(newPosition, 0), -200)
PanPosition(prev, direction) ==
    LET newPosition == IF direction = "left" THEN prev + 50 ELSE prev - 50 IN
    LET upper == IF newPosition < 0 THEN newPosition ELSE 0 IN
    IF upper > -200 THEN upper ELSE -200

\* a click on a pan button, which exists while zoomed and is enabled off the
\* limit of its side
handlePan(direction) ==
    /\ PatientDetail.view = "report"
    /\ PatientDetail.panButtons
    /\ ~(IF direction = "left" THEN PatientDetail.leftDisabled
                               ELSE PatientDetail.rightDisabled)
    /\ patientDetail' = [patientDetail EXCEPT
                            !.imagePosition = PanPosition(@, direction)]

InitViews ==
    /\ trainingMetrics = [InitialTraining EXCEPT !.mounted = FALSE]
    /\ timers = [active |-> {}, next |-> 1, fired |-> 0]
    /\ patientDetail = [InitialDetail("1") EXCEPT !.mounted = FALSE]

----------------------------------------------------------------------------
(* Specifications. *)

\* the request slot the single-request specification uses
Solo == CHOOSE r \in Req : \A q \in Req : r <= q

Init == InitRelay /\ InitUI /\ InitUpload /\ InitViews

\* one request, every body and every behaviour of its process
Next ==
    \/ (\E body \in InferBodies : InferPOST_begin(Solo, body)) /\ UNCHANGED <<uiVars, uploadVars, viewVars>>
    \/ InferPOST_formData(Solo) /\ UNCHANGED <<uiVars, uploadVars, viewVars>>
    \/ (\E ok \in BOOLEAN : InferPOST_mkdir(Solo, ok)) /\ UNCHANGED <<uiVars, uploadVars, viewVars>>
    \/ InferPOST_arrayBuffer(Solo) /\ UNCHANGED <<uiVars, uploadVars, viewVars>>
    \/ (\E ok \in BOOLEAN : InferPOST_writeFile(Solo, ok)) /\ UNCHANGED <<uiVars, uploadVars, viewVars>>
    \/ TrainGET_begin(Solo) /\ UNCHANGED <<uiVars, uploadVars, viewVars>>
    \/ (\E body \in TrainBodies : TrainPOST_begin(Solo, body)) /\ UNCHANGED <<uiVars, uploadVars, viewVars>>
    \/ TrainPOST_formData(Solo) /\ UNCHANGED <<uiVars, uploadVars, viewVars>>
    \/ (\E ok \in BOOLEAN : TrainPOST_createTempDir(Solo, ok)) /\ UNCHANGED <<uiVars, uploadVars, viewVars>>
    \/ TrainPOST_arrayBuffer(Solo) /\ UNCHANGED <<uiVars, uploadVars, viewVars>>
    \/ (\E ok \in BOOLEAN : TrainPOST_writeFile(Solo, ok)) /\ UNCHANGED <<uiVars, uploadVars, viewVars>>
    \/ (\E c \in StdoutChunks : ProcStdout(Solo, c)) /\ UNCHANGED <<uiVars, uploadVars, viewVars>>
    \/ (\E c \in StderrChunks : ProcStderr(Solo, c)) /\ UNCHANGED <<uiVars, uploadVars, viewVars>>
    \/ (\E fatal \in BOOLEAN : ProcSpawnError(Solo, fatal)) /\ UNCHANGED <<uiVars, uploadVars, viewVars>>
    \/ (\E code \in ExitCodes : ProcClose(Solo, code)) /\ UNCHANGED <<uiVars, uploadVars, viewVars>>
    \/ Tick /\ UNCHANGED <<uiVars, uploadVars, viewVars>>

Spec == Init /\ [][Next]_vars

\* the browser: login view, cookie, dashboard layout and sidebar
NextAuth ==
    \/ (\E url \in {"/", "/dashboard"} : LoadPage(url)) /\ UNCHANGED <<relayVars, uploadVars, viewVars>>
    \/ CommitNavigation /\ UNCHANGED <<relayVars, uploadVars, viewVars>>
    \/ (\E role \in UserRole : setSelectedRole(role)) /\ UNCHANGED <<relayVars, uploadVars, viewVars>>
    \/ (\E e \in Emails : setEmail(e)) /\ UNCHANGED <<relayVars, uploadVars, viewVars>>
    \/ (\E p \in Passwords : setPassword(p)) /\ UNCHANGED <<relayVars, uploadVars, viewVars>>
    \/ handleSubmit /\ UNCHANGED <<relayVars, uploadVars, viewVars>>
    \/ DashboardLayout_effect /\ UNCHANGED <<relayVars, uploadVars, viewVars>>
    \/ (\E i \in DOMAIN menuItems : Sidebar_link(i)) /\ UNCHANGED <<relayVars, uploadVars, viewVars>>
    \/ Sidebar_logout /\ UNCHANGED <<relayVars, uploadVars, viewVars>>
    \/ CookieExpire /\ UNCHANGED <<relayVars, uploadVars, viewVars>>

SpecAuth == Init /\ [][NextAuth]_vars

\* concurrent requests: well-formed bodies only
ConcInferBodies ==
    {b \in InferBodies : b.multipart /\ b.image.some /\ Truthy(b.type)
                            /\ b.patientId.some /\ b.patientName.some}
ConcTrainBodies == {b \in TrainBodies : b.multipart /\ b.action.some /\ b.clientId.some}

\* up to MaxReq requests in flight at once, their handlers and processes
\* interleaved at every await; a process prints at most one chunk on each stream
NextConc ==
    \E r \in Req :
        \/ (\E body \in ConcInferBodies : Arrives(r) /\ InferPOST_begin(r, body)) /\ UNCHANGED <<uiVars, uploadVars, viewVars>>
        \/ InferPOST_formData(r) /\ UNCHANGED <<uiVars, uploadVars, viewVars>>
        \/ (\E ok \in BOOLEAN : InferPOST_mkdir(r, ok)) /\ UNCHANGED <<uiVars, uploadVars, viewVars>>
        \/ InferPOST_arrayBuffer(r) /\ UNCHANGED <<uiVars, uploadVars, viewVars>>
        \/ (\E ok \in BOOLEAN : InferPOST_writeFile(r, ok)) /\ UNCHANGED <<uiVars, uploadVars, viewVars>>
        \/ Arrives(r) /\ TrainGET_begin(r) /\ UNCHANGED <<uiVars, uploadVars, viewVars>>
        \/ (\E body \in ConcTrainBodies : Arrives(r) /\ TrainPOST_begin(r, body)) /\ UNCHANGED <<uiVars, uploadVars, viewVars>>
        \/ TrainPOST_formData(r) /\ UNCHANGED <<uiVars, uploadVars, viewVars>>
        \/ (\E ok \in BOOLEAN : TrainPOST_createTempDir(r, ok)) /\ UNCHANGED <<uiVars, uploadVars, viewVars>>
        \/ TrainPOST_arrayBuffer(r) /\ UNCHANGED <<uiVars, uploadVars, viewVars>>
        \/ (\E ok \in BOOLEAN : TrainPOST_writeFile(r, ok)) /\ UNCHANGED <<uiVars, uploadVars, viewVars>>
        \/ proc[r].out = <<>> /\ ProcStdout(r, "1") /\ UNCHANGED <<uiVars, uploadVars, viewVars>>
        \/ proc[r].err = <<>> /\ ProcStderr(r, "E") /\ UNCHANGED <<uiVars, uploadVars, viewVars>>
        \/ (\E fatal \in BOOLEAN : ProcSpawnError(r, fatal)) /\ UNCHANGED <<uiVars, uploadVars, viewVars>>
        \/ (\E code \in {0, MaxExit} : ProcClose(r, code)) /\ UNCHANGED <<uiVars, uploadVars, viewVars>>

SpecConc == Init /\ [][NextConc]_vars

\* the upload view in front of the inference endpoint: each click on Analyze
\* sends the next request; a process prints at most one chunk on each stream
NextUpload ==
    \/ (\E component \in {"UploadImage", "MedicalAnalysis"} : UploadPage(component))
            /\ UNCHANGED <<relayVars, shellVars, viewVars>>
    \/ (\E file \in OptFile(FileNames) : handleFileChange(file)) /\ UNCHANGED <<relayVars, shellVars, viewVars>>
    \/ (\E value \in AnalysisTypes : MedicalAnalysis_setImageType(value))
            /\ UNCHANGED <<relayVars, shellVars, viewVars>>
    \/ (\E value \in PatientNames : setPatientName(value)) /\ UNCHANGED <<relayVars, shellVars, viewVars>>
    \/ (\E value \in PatientIds : setPatientId(value)) /\ UNCHANGED <<relayVars, shellVars, viewVars>>
    \/ (\E value \in UploadTypes : UploadImage_setImageType(value))
            /\ UNCHANGED <<relayVars, shellVars, viewVars>>
    \/ (\E name \in FileNames : handleImageUpload(<<SomeFile(name, "A").v>>))
            /\ UNCHANGED <<relayVars, shellVars, viewVars>>
    \/ (\E index \in 1..MaxImages : removeImage(index)) /\ UNCHANGED <<relayVars, shellVars, viewVars>>
    \/ UploadImage_handleSubmit /\ UNCHANGED <<relayVars, shellVars, viewVars>>
    \/ \E r \in Req :
        \/ handleAnalyze(r) /\ UNCHANGED <<shellVars, viewVars>>
        \/ handleAnalyze_response(r) /\ UNCHANGED <<relayVars, shellVars, viewVars>>
        \/ handleAnalyze_rejected(r) /\ UNCHANGED <<relayVars, shellVars, viewVars>>
        \/ handleAnalyze_undecodable(r) /\ UNCHANGED <<relayVars, shellVars, viewVars>>
        \/ InferPOST_formData(r) /\ UNCHANGED <<uiVars, uploadVars, viewVars>>
        \/ (\E ok \in BOOLEAN : InferPOST_mkdir(r, ok)) /\ UNCHANGED <<uiVars, uploadVars, viewVars>>
        \/ InferPOST_arrayBuffer(r) /\ UNCHANGED <<uiVars, uploadVars, viewVars>>
        \/ (\E ok \in BOOLEAN : InferPOST_writeFile(r, ok)) /\ UNCHANGED <<uiVars, uploadVars, viewVars>>
        \/ proc[r].out = <<>> /\ ProcStdout(r, "1") /\ UNCHANGED <<uiVars, uploadVars, viewVars>>
        \/ proc[r].err = <<>> /\ ProcStderr(r, "E") /\ UNCHANGED <<uiVars, uploadVars, viewVars>>
        \/ (\E fatal \in BOOLEAN : ProcSpawnError(r, fatal)) /\ UNCHANGED <<uiVars, uploadVars, viewVars>>
        \/ (\E code \in {0, MaxExit} : ProcClose(r, code)) /\ UNCHANGED <<uiVars, uploadVars, viewVars>>

SpecUpload == Init /\ [][NextUpload]_vars

\* the two views over mock data, each mounted and torn down at will
NextViews ==
    \/ TrainingMetrics_mount /\ UNCHANGED <<relayVars, shellVars, uploadVars, patientDetail>>
    \/ TrainingMetrics_effect /\ UNCHANGED <<relayVars, shellVars, uploadVars, patientDetail>>
    \/ (\E id \in 1..MaxIntervals : Interval_tick(id))
            /\ UNCHANGED <<relayVars, shellVars, uploadVars, patientDetail>>
    \/ TrainingMetrics_unmount /\ UNCHANGED <<relayVars, shellVars, uploadVars, patientDetail>>
    \/ TrainingMetrics_refresh /\ UNCHANGED <<relayVars, shellVars, uploadVars, patientDetail>>
    \/ (\E id \in RouteIds : PatientDetail_mount(id))
            /\ UNCHANGED <<relayVars, uiVars, uploadVars, trainingMetrics, timers>>
    \/ PatientDetail_effect /\ UNCHANGED <<relayVars, uiVars, uploadVars, trainingMetrics, timers>>
    \/ PatientDetail_unmount /\ UNCHANGED <<relayVars, uiVars, uploadVars, trainingMetrics, timers>>
    \/ PatientDetail_zoom /\ UNCHANGED <<relayVars, uiVars, uploadVars, trainingMetrics, timers>>
    \/ (\E direction \in {"left", "right"} : handlePan(direction))
            /\ UNCHANGED <<relayVars, uiVars, uploadVars, trainingMetrics, timers>>

SpecViews == Init /\ [][NextViews]_vars

\* well-formed inference bodies of one patient whose uploads carry the same
\* file name and different bytes
ClashBodies ==
    {[b EXCEPT !.image = SomeFile(b.image.v.name, bytes)] :
        b \in ConcInferBodies, bytes \in {"A", "B"}}

\* concurrent inference requests while time passes; every file operation
\* succeeds and every process prints its result and exits with 0
NextClash ==
    \/ \E r \in Req :
        \/ (\E body \in ClashBodies : Arrives(r) /\ InferPOST_begin(r, body)) /\ UNCHANGED <<uiVars, uploadVars, viewVars>>
        \/ InferPOST_formData(r) /\ UNCHANGED <<uiVars, uploadVars, viewVars>>
        \/ InferPOST_mkdir(r, TRUE) /\ UNCHANGED <<uiVars, uploadVars, viewVars>>
        \/ InferPOST_arrayBuffer(r) /\ UNCHANGED <<uiVars, uploadVars, viewVars>>
        \/ InferPOST_writeFile(r, TRUE) /\ UNCHANGED <<uiVars, uploadVars, viewVars>>
        \/ proc[r].out = <<>> /\ ProcStdout(r, "1") /\ UNCHANGED <<uiVars, uploadVars, viewVars>>
        \/ proc[r].out # <<>> /\ ProcClose(r, 0) /\ UNCHANGED <<uiVars, uploadVars, viewVars>>
    \/ Tick /\ UNCHANGED <<uiVars, uploadVars, viewVars>>

SpecClash == Init /\ [][NextClash]_vars

----------------------------------------------------------------------------
(* Claims about the relay endpoints, checked under Spec. *)

\* C1: an inference POST whose multipart body lacks `image` or lacks `type`
\* is answered with HTTP 400 and {success: false, error: 'Missing required
\* fields'}; its handler writes no file to the uploads directory and spawns
\* no process, before or after responding.
C1_MissingFieldsRejected ==
    \A r \in Req :
        (req[r].kind = "infer" /\ req[r].body.multipart
            /\ (~req[r].body.image.some \/ ~req[r].body.type.some))
        => /\ req[r].spawns = 0 /\ proc[r].state = "none"
           /\ {f \in files : f.path.dir = "uploads"} = {}
           /\ req[r].pc \in {"formData", "done"}
           /\ req[r].pc = "formData" => resp[r] = <<>>
           /\ req[r].pc = "done" =>
                resp[r] = <<[status |-> 400,
                             body |-> [success |-> FALSE, error |-> "Missing required fields"]]>>

\* C1 witness: a request with an image and no type has been answered 400
C1_Witness ==
    \E r \in Req :
        /\ req[r].kind = "infer" /\ req[r].pc = "done"
        /\ req[r].body.multipart /\ req[r].body.image.some /\ ~req[r].body.type.some
        /\ Len(resp[r]) = 1 /\ resp[r][1].status = 400

\* C2 as stated: a training request whose process exits zero and prints valid
\* JSON X is answered 200 with {success: true, result: X} (POST) or
\* {success: true, status: X} (GET), whatever it wrote to standard error.
C2_Original ==
    \A r \in Req :
        (req[r].kind \in {"trainGet", "trainPost"} /\ proc[r].state = "closed"
            /\ proc[r].code = 0 /\ JSONParse(proc[r].out).ok)
        => resp[r] = <<[status |-> 200,
                        body |-> IF req[r].kind = "trainPost"
                                 THEN [success |-> TRUE, result |-> JSONParse(proc[r].out).val]
                                 ELSE [success |-> TRUE, status |-> JSONParse(proc[r].out).val]]>>

\* C2 amended: a training request whose process exits zero, writes nothing to
\* standard error and prints valid JSON X is answered 200 with
\* {success: true, result: X} (POST) or {success: true, status: X} (GET).
C2_SuccessRelayed ==
    \A r \in Req :
        (req[r].kind \in {"trainGet", "trainPost"} /\ proc[r].state = "closed"
            /\ proc[r].code = 0 /\ proc[r].err = <<>> /\ JSONParse(proc[r].out).ok)
        => resp[r] = <<[status |-> 200,
                        body |-> IF req[r].kind = "trainPost"
                                 THEN [success |-> TRUE, result |-> JSONParse(proc[r].out).val]
                                 ELSE [success |-> TRUE, status |-> JSONParse(proc[r].out).val]]>>

\* C2 witness: a training POST whose process printed "[ ]" and exited zero has
\* been answered with the value []
C2_Witness ==
    \E r \in Req :
        /\ req[r].kind = "trainPost" /\ proc[r].state = "closed" /\ proc[r].code = 0
        /\ proc[r].err = <<>> /\ proc[r].out = <<"[", " ", "]">>
        /\ resp[r] = <<[status |-> 200, body |-> [success |-> TRUE, result |-> <<"[", "]">>]]>>

\* C3: whenever the process of a relay handler closes with a non-zero exit
\* code, the response is HTTP 500 with {success: false, error: <the handler's
\* fixed message>}, whatever the process wrote to stdout or stderr.
C3_NonZeroExitFails ==
    \A r \in Req :
        (proc[r].state = "closed" /\ proc[r].code # 0)
        => resp[r] = <<[status |-> 500,
                        body |-> [success |-> FALSE,
                                  error |-> CASE req[r].kind = "infer" -> "Inference failed"
                                              [] req[r].kind = "trainGet" -> "Failed to get training status"
                                              [] OTHER -> "Training operation failed"]]>>

\* C3 witness: a process printed valid JSON, wrote nothing to stderr and
\* exited non-zero, and the request was answered 500
C3_Witness ==
    \E r \in Req :
        /\ proc[r].state = "closed" /\ proc[r].code # 0
        /\ JSONParse(proc[r].out).ok /\ proc[r].err = <<>>
        /\ Len(resp[r]) = 1 /\ resp[r][1].status = 500

C5_Original ==
    \A r \in Req :
        (proc[r].state = "closed" /\ proc[r].err # <<>>)
        => /\ Len(resp[r]) = 1
           /\ resp[r][1].status = 500
           /\ ~resp[r][1].body.success

\* C6 as stated: every response body of the inference endpoint has only the
\* keys success, result and error; result only with success true, error only
\* with success false.
C6_Original ==
    \A r \in Req : \A i \in DOMAIN resp[r] :
        req[r].kind = "infer"
        => LET body == resp[r][i].body IN
           /\ DOMAIN body \subseteq {"success", "result", "error"}
           /\ "result" \in DOMAIN body => body.success
           /\ "error" \in DOMAIN body => ~body.success

\* C6 amended: every response body of the inference endpoint has only the
\* keys success, result, imagePath and error: result and imagePath exactly
\* when success is true, error exactly when success is false.
C6_ResponseShape ==
    \A r \in Req : \A i \in DOMAIN resp[r] :
        req[r].kind = "infer"
        => LET body == resp[r][i].body IN
           /\ "success" \in DOMAIN body
           /\ body.success => DOMAIN body = {"success", "result", "imagePath"}
           /\ ~body.success => DOMAIN body = {"success", "error"}

\* C6 witness: the inference endpoint has sent a success response
C6_Witness ==
    \E r \in Req :
        /\ req[r].kind = "infer" /\ Len(resp[r]) = 1
        /\ resp[r][1].body.success /\ resp[r][1].body.imagePath = req[r].fileName

\* C9: for an inference request that passes the shape check, with patient id
\* P and uploaded file name N, the file name computed and persisted is P, '_',
\* the decimal timestamp, '_', N: it contains 'P_' before N.
C9_FileName ==
    \A r \in Req :
        (req[r].kind = "infer" /\ req[r].fileName # <<>> /\ req[r].body.patientId.some)
        => LET P == req[r].body.patientId.v
               N == req[r].body.image.v.name
               name == req[r].fileName
               mid == SubSeq(name, Len(P) + 2, Len(name) - Len(N) - 1)
               \* s has t as a substring starting at index i
               OccursAt(t, s, i) ==
                   i >= 1 /\ i + Len(t) - 1 <= Len(s) /\ SubSeq(s, i, i + Len(t) - 1) = t
           IN /\ OccursAt(P \o <<"_">>, name, 1)
              /\ OccursAt(<<"_">> \o N, name, Len(name) - Len(N))
              /\ Len(P) + 1 <= Len(name) - Len(N)
              /\ \E t \in ClockStart..now : mid = Dec(t)
              /\ \A k \in DOMAIN mid : \E d \in DOMAIN Digits : mid[k] = Digits[d]
              /\ req[r].path = [dir |-> "uploads", name |-> name]
              /\ proc[r].state # "none" => \E f \in files : f.path = req[r].path

\* C9 witness: the upload scan.dcm of patient 42 is on disk as 42_10_scan.dcm
C9_Witness ==
    \E f \in files :
        /\ f.path.dir = "uploads"
        /\ f.path.name = <<"4", "2", "_", "1", "0", "_", "s", "c", "a", "n", ".", "d", "c", "m">>

----------------------------------------------------------------------------
(* Claims about the view shell, checked under SpecAuth. *)

\* C7: the sidebar rendered for a role shows a navigation item iff the role
\* is in the item's allow-list: for doctor every item but 'Upload Images',
\* for radiologist all six, in the order of the menu.
C7_SidebarByRole ==
    LET labels(items) == [k \in DOMAIN items |-> items[k].label]
        expected(role) ==
            IF role = "doctor"
            THEN <<"Home", "Recent Uploads", "Book Appointment", "Analytics", "Settings">>
            ELSE <<"Home", "Recent Uploads", "Upload Images", "Book Appointment",
                   "Analytics", "Settings">>
    IN /\ \A role \in UserRole : labels(Sidebar(role)) = expected(role)
       /\ DashboardLayout.view = "dashboard" =>
            /\ shell.userRole \in UserRole
            /\ labels(DashboardLayout.sidebar) = expected(shell.userRole)
            /\ \A i \in DOMAIN menuItems :
                 (\E k \in DOMAIN DashboardLayout.sidebar :
                      DashboardLayout.sidebar[k] = menuItems[i])
                 <=> shell.userRole \in menuItems[i].roles

\* C7 witness: the dashboard is rendered for a doctor, without 'Upload Images'
C7_Witness ==
    /\ DashboardLayout.view = "dashboard" /\ shell.userRole = "doctor" /\ cookie = "doctor"
    /\ Len(DashboardLayout.sidebar) = 5
    /\ \A k \in DOMAIN DashboardLayout.sidebar : DashboardLayout.sidebar[k].label # "Upload Images"

\* C8: a dashboard layout that found no role cookie (or has not looked yet)
\* renders only the loading placeholder, never the sidebar or the child view,
\* and once its effect has run the navigation to '/' is under way.
C8_NoCookieRedirects ==
    (shell.mounted /\ shell.role = "")
    => /\ DashboardLayout = [view |-> "Loading...", sidebar |-> <<>>, children |-> FALSE]
       /\ shell.userRole = ""
       /\ shell.pc = "ready" => pendingNav = "/"

\* C8 witness: the layout's effect has run without a cookie and pushed '/'
C8_Witness ==
    /\ location = "/dashboard" /\ shell.mounted /\ shell.pc = "ready"
    /\ shell.role = "" /\ cookie = "" /\ pendingNav = "/"

\* C10: the role cookie goes from absent to present only in a login submit
\* (which writes the selected role), from present to absent only by expiry,
\* and a click on Logout leaves the cookie and the layout's state unchanged.
C10_CookieTransitions ==
    [][ /\ (cookie = "" /\ cookie' # "") => (handleSubmit /\ cookie' = login.selectedRole)
        /\ (cookie # "" /\ cookie' = "") => CookieExpire
        /\ Sidebar_logout => (cookie' = cookie /\ shell' = shell) ]_vars

\* C10 witness: Logout has been clicked and the user is still signed in
C10_Witness ==
    /\ console # <<>> /\ console[Len(console)] = "Logout clicked"
    /\ cookie \in UserRole /\ shell.userRole = cookie

\* C11: a login submit writes the cookie and pushes '/dashboard' iff a role
\* is selected and email and password are both non-empty; the value written
\* is the selected role; a submit that fails the test leaves cookie and
\* navigation alone; the cookie is always absent, 'doctor' or 'radiologist'.
C11_SubmitSetsCookie ==
    [][ /\ cookie \in {""} \cup UserRole /\ cookie' \in {""} \cup UserRole
        /\ handleSubmit =>
             LET complete == login.selectedRole # "" /\ login.email # "" /\ login.password # ""
             IN /\ complete => (cookie' = login.selectedRole /\ pendingNav' = "/dashboard")
                /\ ~complete => (cookie' = cookie /\ pendingNav' = pendingNav)
        /\ (cookie' # cookie /\ cookie' # "") =>
             /\ handleSubmit
             /\ login.selectedRole \in UserRole /\ login.email # "" /\ login.password # "" ]_vars

\* C11 witness: a complete form was submitted for a radiologist: the cookie
\* holds 'radiologist' and the navigation to '/dashboard' is pending
C11_Witness ==
    /\ location = "/" /\ login.selectedRole = "radiologist"
    /\ login.email # "" /\ login.password # ""
    /\ cookie = "radiologist" /\ pendingNav = "/dashboard"

----------------------------------------------------------------------------
(* Claims about failures of the external process, checked under Spec.      *)
(* A handler reacts to an event of its process in the step of the event,   *)
(* so a request left unanswered after the event stays unanswered.          *)

\* C12 as stated: a process that could not be started, a process that exited
\* non-zero and a process that exited zero with stdout that is not JSON all
\* yield the same response, HTTP 500 with the handler's fixed failure string.
C12_Original ==
    \A r \in Req :
        LET notFound == proc[r].state = "failed"
            crashed == proc[r].state = "closed" /\ proc[r].code # 0
            malformed == proc[r].state = "closed" /\ proc[r].code = 0
                            /\ ~JSONParse(proc[r].out).ok
        IN (notFound \/ crashed \/ malformed) => resp[r] = <<FailureOf(req[r].kind)>>

\* C13 as stated, checked under SpecConc: whatever fails in one request
\* (spawn, exit code, stderr, stdout, file write), the hosting process stays
\* up, the failing request's own handler catches the error and answers with
\* its failure response, and every other request that has been answered was
\* answered as its own process dictates.
C13_Original ==
    /\ host = "up"
    /\ \A r \in Req :
        /\ proc[r].state = "failed" => resp[r] = <<FailureOf(req[r].kind)>>
        /\ proc[r].state = "closed" => resp[r] = <<Outcome(req[r], proc[r].code)>>
        /\ (req[r].pc = "done" /\ proc[r].state = "none") => resp[r] = <<FailureOf(req[r].kind)>>

----------------------------------------------------------------------------
(* Claims about what a handler spawns and when it answers, under Spec.     *)

\* the request in slot r was rejected for its shape: its body is not
\* multipart, or its fields fail the handler's check (only the inference
\* handler has one)
ShapeRejected(r) ==
    \/ req[r].kind \in {"infer", "trainPost"} /\ ~req[r].body.multipart
    \/ req[r].kind = "infer" /\ InferMissing(req[r].body)

\* the directory and the file that the handler of slot r creates before it
\* spawns are on disk
Persisted(r) ==
    CASE req[r].kind = "infer" ->
            "uploads" \in dirs /\ \E f \in files : f.path = req[r].path
      [] req[r].kind = "trainPost" ->
            /\ "temp" \in dirs
            /\ req[r].body.modelUpdate.some => \E f \in files : f.path = req[r].path
      [] OTHER -> TRUE

C15_ResponseAfterClose ==
    [][ \A r \in Req :
          /\ proc[r].state \in {"running", "failed"} => resp[r] = <<>>
          /\ proc'[r].state \in {"running", "failed"} => resp'[r] = <<>>
          /\ (req[r].spawns > 0 /\ resp'[r] # resp[r]) =>
                /\ \E code \in ExitCodes : ProcClose(r, code)
                /\ proc'[r].state = "closed" ]_vars

\* C15 witness: a process has printed all it can and the clock has run out,
\* the process has not closed and the request is still unanswered
C15_Witness ==
    \E r \in Req :
        /\ req[r].spawns = 1 /\ proc[r].state = "running"
        /\ Len(proc[r].out) = MaxChunks /\ Len(proc[r].err) = MaxErrChunks
        /\ now = ClockStart + MaxTick
        /\ req[r].pc = "close" /\ resp[r] = <<>>

\* C16: the process of a training POST is invoked with cli.py, '--mode', the
\* action, '--client_id', the client id (an absent field is passed as the
\* text 'null'), followed by '--update_path' and a path iff a modelUpdate
\* payload is present; the path is update_<clientId>_<timestamp>.pt in the
\* temp directory and holds the payload from the moment of the spawn on; a
\* request without payload writes no file.
C16_TrainingArgs ==
    \A r \in Req :
        req[r].kind = "trainPost" =>
        LET b == req[r].body
            mode == IF b.action.some THEN b.action.v ELSE <<"n", "u", "l", "l">>
            client == IF b.clientId.some THEN b.clientId.v ELSE <<"n", "u", "l", "l">>
            base == <<"cli.py", "--mode", mode, "--client_id", client>>
        IN /\ proc[r].state # "none" =>
                IF b.modelUpdate.some
                THEN /\ Len(proc[r].args) = 7
                     /\ SubSeq(proc[r].args, 1, 5) = base
                     /\ proc[r].args[6] = "--update_path"
                     /\ proc[r].args[7].dir = "temp"
                     /\ \E t \in ClockStart..now :
                            proc[r].args[7].name =
                                <<"u", "p", "d", "a", "t", "e", "_">> \o client \o <<"_">>
                                    \o Dec(t) \o <<".", "p", "t">>
                     /\ [path |-> proc[r].args[7], data |-> b.modelUpdate.v.bytes] \in files
                     /\ "temp" \in dirs
                ELSE proc[r].args = base
           /\ ~b.modelUpdate.some => files = {}

\* C16 witness: a training POST with a payload has spawned its process with
\* seven arguments and the payload is on disk at the path passed
C16_Witness ==
    \E r \in Req :
        /\ req[r].kind = "trainPost" /\ req[r].body.modelUpdate.some
        /\ req[r].body.action.some /\ req[r].body.clientId.some
        /\ proc[r].state = "running" /\ Len(proc[r].args) = 7
        /\ \E f \in files : f.path = proc[r].args[7] /\ f.path.dir = "temp"

\* C17 as stated: a training POST whose multipart body has no `action` field
\* is rejected as a request-shape error (HTTP 400) before the temp directory
\* is created, before any payload is written and before any process is
\* spawned.
C17_Original ==
    \A r \in Req :
        (req[r].kind = "trainPost" /\ req[r].body.multipart /\ ~req[r].body.action.some)
        => /\ "temp" \notin dirs
           /\ files = {}
           /\ req[r].spawns = 0 /\ proc[r].state = "none"
           /\ req[r].pc = "done" => (Len(resp[r]) = 1 /\ resp[r][1].status = 400)

----------------------------------------------------------------------------
(* Claims about concurrent requests, checked under SpecConc.  The request  *)
(* in a higher slot arrived after the requests in the lower slots, which   *)
(* may be at any point of their handling: they are its history.            *)

\* C18: two requests to the training endpoint that are the same request
\* (method, action, clientId, payload, and the clock value that names the
\* payload's file) and whose processes behaved the same (output, diagnostic
\* output, exit) were given the same process arguments and the same
\* response, whatever requests came before each of them.
C18_TrainingStateless ==
    \A r, q \in Req :
        (/\ req[r].kind \in {"trainGet", "trainPost"} /\ req[q].kind = req[r].kind
         /\ req[r].body = req[q].body
         /\ req[r].fileName = req[q].fileName
         /\ proc[r] # NoProc
         /\ proc[r].state = proc[q].state /\ proc[r].code = proc[q].code
         /\ proc[r].out = proc[q].out /\ proc[r].err = proc[q].err)
        => /\ proc[r].args = proc[q].args
           /\ resp[r] = resp[q]

\* C18 witness: a training POST with a payload was answered 200, and a
\* training POST with the same body that arrived after it, whose process
\* behaved the same, got the same answer
C18_Witness ==
    \E r, q \in Req :
        /\ r < q
        /\ req[r].kind = "trainPost" /\ req[q].kind = "trainPost"
        /\ req[r].body = req[q].body /\ req[r].body.modelUpdate.some
        /\ proc[r].state = "closed" /\ proc[q].state = "closed"
        /\ proc[r].code = 0 /\ proc[q].code = 0
        /\ proc[r].out = <<"1">> /\ proc[q].out = <<"1">>
        /\ proc[r].err = <<>> /\ proc[q].err = <<>>
        /\ Len(resp[q]) = 1 /\ resp[q][1].status = 200 /\ resp[q] = resp[r]

----------------------------------------------------------------------------
(* Claims about the upload view, checked under SpecUpload. *)

\* C19 as stated: every request the upload view has sent to the inference
\* endpoint is a multipart POST that carries image, type, patientName and
\* patientId, so that the file name the endpoint computes begins with the
\* patient id sent and the process is given the patient id and name sent.
C19_Original ==
    \A r \in Req :
        (fetches[r] # "none" /\ req[r].kind = "infer")
        => LET b == req[r].body IN
           /\ b.multipart
           /\ b.image.some /\ b.type.some /\ b.patientName.some /\ b.patientId.some
           /\ req[r].fileName # <<>> =>
                SubSeq(req[r].fileName, 1, Len(b.patientId.v)) = b.patientId.v
           /\ proc[r].state # "none" =>
                /\ proc[r].args[7] = b.patientId.v
                /\ proc[r].args[9] = b.patientName.v

----------------------------------------------------------------------------
(* A further claim about the view shell, checked under SpecAuth. *)

\* C20 as stated: whenever a navigation brings the user to a protected view,
\* the dashboard shell is about to read the role cookie again, and if the
\* cookie is absent by then (it has expired) the view is not rendered.
C20_Original ==
    [][ (CommitNavigation /\ pendingNav \in DashboardRoutes)
        => /\ shell'.mounted /\ shell'.pc = "effect"
           /\ cookie = "" => DashboardLayout'.view # "dashboard" ]_vars

----------------------------------------------------------------------------
(* Further claims about the inference endpoint, checked under Spec. *)

\* C21: from the moment the process of an inference request is spawned, the
\* uploads directory exists and holds a file with exactly the uploaded bytes,
\* and the argument after '--image_path' is exactly the path of that file,
\* which is the uploads directory joined with the computed file name.
C21_WrittenBeforeSpawn ==
    \A r \in Req :
        (req[r].kind = "infer" /\ proc[r].state # "none")
        => /\ proc[r].args[2] = "--image_path"
           /\ proc[r].args[3] = [dir |-> "uploads", name |-> req[r].fileName]
           /\ "uploads" \in dirs
           /\ [path |-> proc[r].args[3], data |-> req[r].body.image.v.bytes] \in files
           /\ \A f \in files : f.path = proc[r].args[3] => f.data = req[r].body.image.v.bytes

\* C21 witness: the process of an inference request is running, nothing
\* printed yet, and the upload is on disk at the path it was given
C21_Witness ==
    \E r \in Req :
        /\ req[r].kind = "infer" /\ proc[r].state = "running"
        /\ proc[r].out = <<>> /\ proc[r].err = <<>>
        /\ \E f \in files : f.path = proc[r].args[3] /\ f.data = "A" /\ f.path.dir = "uploads"

----------------------------------------------------------------------------
(* Claims about the image-analysis view (MedicalAnalysis), checked under   *)
(* SpecUpload.                                                             *)

\* the requests the view has sent whose fetch has not settled
InFlight == {r \in Req : fetches[r] = "pending"}

C23_ErrorDisplay ==
    [][ \A r \in Req :
          (/\ fetches[r] = "pending" /\ fetches'[r] = "settled"
           /\ ~(resp[r] # <<>> /\ resp[r][1].body.success))
          => /\ medicalAnalysis'.error.some /\ medicalAnalysis'.error.v # ""
             /\ medicalAnalysis'.error.v =
                  IF resp[r] = <<>> THEN medicalAnalysis'.error.v
                  ELSE IF "error" \in DOMAIN resp[r][1].body /\ resp[r][1].body.error # ""
                       THEN resp[r][1].body.error
                       ELSE "Analysis failed"
             /\ resp[r] = <<>> =>
                  medicalAnalysis'.error.v \in {"Failed to fetch",
                                                "Unexpected token < in JSON at position 0"}
             /\ medicalAnalysis'.analysis = medicalAnalysis.analysis
             /\ req' = req /\ proc' = proc
             /\ \A q \in Req : q # r => fetches'[q] = fetches[q] ]_vars

\* C23 witness: after a successful analysis a second request was answered
\* with the failure envelope: the error is shown and the first result kept
C23_Witness ==
    \E r, q \in Req :
        /\ r < q /\ fetches[r] = "settled" /\ fetches[q] = "settled"
        /\ resp[r] # <<>> /\ resp[r][1].body.success
        /\ resp[q] = <<InferFailure>>
        /\ medicalAnalysis.error = SomeError("Inference failed")
        /\ medicalAnalysis.analysis = Some(resp[r][1].body.result)
        /\ ~medicalAnalysis.loading

\* C24: once the mount effect of the training-metrics view has run and until
\* the view is torn down, exactly one interval timer is active, the one the
\* view holds; before the effect and after the teardown none is. An interval
\* callback runs only on a mounted view, and no step taken while the view
\* stays unmounted changes the metrics state.
C24_OneTimerWhileMounted ==
    [][ LET Held(tm) == IF tm.mounted /\ tm.pc = "ready" THEN {tm.intervalId} ELSE {} IN
        /\ timers.active = Held(trainingMetrics)
        /\ timers'.active = Held(trainingMetrics')
        /\ timers'.fired # timers.fired
              => trainingMetrics.mounted /\ trainingMetrics'.mounted
        /\ (~trainingMetrics.mounted /\ ~trainingMetrics'.mounted)
              => trainingMetrics'.metrics = trainingMetrics.metrics
      ]_vars

\* C24 witness: the view was mounted, refreshed by a tick, torn down and
\* mounted again; the first timer is gone and the second is the only one
C24_Witness ==
    /\ trainingMetrics.mounted
    /\ trainingMetrics.pc = "ready"
    /\ trainingMetrics.intervalId = 2
    /\ timers.active = {2}
    /\ timers.fired >= 1
    /\ trainingMetrics.metrics = FetchedMetrics

\* C25: the patient-detail view shows the loading placeholder or a report and
\* nothing else; once its effect has run under a route id that is the id of an
\* entry of patientReports it shows exactly that entry, and under any other
\* route id the report state is null and the view shows the placeholder in
\* every state.
C25_LookupById ==
    patientDetail.mounted =>
        LET entries == {patientReports[i] : i \in DOMAIN patientReports}
            matching == {e \in entries : e.id = patientDetail.id}
        IN  /\ PatientDetail.view \in {"loading", "report"}
            /\ Cardinality(matching) <= 1
            /\ (matching # {} /\ patientDetail.pc = "ready")
                  => /\ PatientDetail.view = "report"
                     /\ PatientDetail.report \in matching
                     /\ patientDetail.report = SomeReport(PatientDetail.report)
            /\ matching = {}
                  => /\ patientDetail.report = NoReport
                     /\ PatientDetail.view = "loading"

\* C25 witness: the route of report 3 shows Bob Johnson's entry, zoomed in
C25_Witness ==
    /\ patientDetail.mounted
    /\ patientDetail.id = "3"
    /\ PatientDetail.view = "report"
    /\ PatientDetail.report.patientName = "Bob Johnson"
    /\ patientDetail.imageZoomed

\* C27: the image position of the patient-detail view is always one of -200,
\* -150, -100, -50, 0; a left pan sets it to the old position plus 50 and a right
\* pan to the old position minus 50, each clamped to the range -200..0, and a
\* zoom toggle sets it to 0.
C27_PositionRange ==
    [][ LET Clamp(x) == IF x > 0 THEN 0 ELSE IF x < -200 THEN -200 ELSE x
            pos == patientDetail.imagePosition
        IN  /\ pos \in {-200, -150, -100, -50, 0}
            /\ patientDetail'.imagePosition \in {-200, -150, -100, -50, 0}
            /\ handlePan("left") => patientDetail'.imagePosition = Clamp(pos + 50)
            /\ handlePan("right") => patientDetail'.imagePosition = Clamp(pos - 50)
            /\ PatientDetail_zoom => patientDetail'.imagePosition = 0
            /\ \A prev \in {-200, -150, -100, -50, 0} :
                  /\ PanPosition(prev, "left") = Clamp(prev + 50)
                  /\ PanPosition(prev, "right") = Clamp(prev - 50)
      ]_vars

\* C27 witness: the zoomed image has been panned right to the limit -200
C27_Witness ==
    /\ PatientDetail.view = "report"
    /\ patientDetail.imageZoomed
    /\ patientDetail.imagePosition = -200
    /\ PatientDetail.rightDisabled

\* C26 as stated, checked under SpecClash: while the process of an inference
\* request has been spawned and has not yet closed, no other request has
\* persisted its upload to the same path, and the file at that path still
\* holds the bytes that request uploaded.
C26_Original ==
    \A r \in Req :
        (req[r].kind = "infer" /\ proc[r].state = "running")
        => /\ \A q \in Req \ {r} :
                (req[q].kind = "infer" /\ proc[q].state # "none")
                => req[q].path # req[r].path
           /\ \A f \in files :
                f.path = req[r].path => f.data = req[r].body.image.v.bytes

\* C28: the loading flag of the image-analysis view is true exactly in the
\* states in which a request started by handleAnalyze is in flight (sent and
\* its outcome not yet handled): it is false before any request, true from
\* the step that sends one, and false again from the step that handles its
\* outcome, whichever outcome that is.
C28_LoadingWhileInFlight == medicalAnalysis.loading <=> InFlight # {}

\* C28 witness: a first request ended with a success envelope and a second
\* one with a network error; the view is not loading
C28_Witness ==
    \E r, q \in Req :
        /\ r < q /\ fetches[r] = "settled" /\ fetches[q] = "settled"
        /\ resp[r] # <<>> /\ resp[r][1].body.success
        /\ resp[q] = <<>>
        /\ medicalAnalysis.error = SomeError("Failed to fetch")
        /\ ~medicalAnalysis.loading

\* C29 as stated, checked under SpecUpload: the image-analysis view never
\* shows an error message and an analysis result together, that is, the
\* error state and the analysis state are never both set.
C29_Original ==
    medicalAnalysis.mounted
        => ~(medicalAnalysis.error.some /\ medicalAnalysis.analysis.some)

====
